---- MODULE Spec2Model ----
(***************************************************************************)
(* Virtual-memory / cache simulator: the MMU (TLB, page table walk, page   *)
(* fault service), the three-level set-associative cache hierarchy with    *)
(* its per-set OrderedDict LRU, the backing Memory, and the standalone     *)
(* n-way LRU cache.                                                        *)
(*                                                                         *)
(* Python values are modelled as follows.                                  *)
(*   - A datum is a pair <<type, n>>: <<"str", k>> is the k-th write       *)
(*     payload (a str), <<"bytes", i>> is b"data" + bytes([i]),            *)
(*     <<"dict", r>> is a reference to the dict object r, and              *)
(*     <<"none", 0>> is None.                                              *)
(*   - A block is a Python dict, a mutable object: the variable heap maps  *)
(*     each live object's reference to its offset -> datum contents, and   *)
(*     cache entries and Memory.storage hold references, so that aliasing  *)
(*     between the cache levels and the memory is part of the model.       *)
(*   - An OrderedDict is a sequence of [tag, blk] records, oldest first.   *)
(*   - An int that may be None uses NoneInt for None.                      *)
(***************************************************************************)
EXTENDS Integers, Sequences, FiniteSets, TLC

\* ------------------------------------------------------------------ bounds

\* The cache hierarchy the MMU is checked with, scaled down from the default
\* 32 KiB / 256 KiB / 2 MiB: the number of sets of each level, and the
\* associativity passed as n_way.
L1_SETS == 1
L2_SETS == 2
L3_SETS == 4
MMU_WAYS == 1
\* The standalone cache is driven while its usage counters stay below this.
MaxUsage == 4
\* The length of the access sequences the LRU scenarios are run on.
MaxTrace == 4

\* ------------------------------------------------------- program constants

PAGE_SIZE_KiB == 4
LINE_SIZE == 64
N_WAY == 2
BLOCK_SIZE == 16
NoneInt == -1

EmptyMap == [x \in {} |-> 0]
NoneVal == <<"none", 0>>
Str(k) == <<"str", k>>
DictRef(r) == <<"dict", r>>
\* The write payloads the CPU side sends.
Payloads == {Str(1), Str(2)}

\* ------------------------------------------------------------ int helpers

RECURSIVE bit_length(_)
bit_length(x) ==
    IF x <= 0 THEN 0 ELSE 1 + bit_length(x \div 2)

RECURSIVE BitAnd(_, _)
BitAnd(a, b) ==
    IF a = 0 \/ b = 0 THEN 0
    ELSE (IF a % 2 = 1 /\ b % 2 = 1 THEN 1 ELSE 0) + 2 * BitAnd(a \div 2, b \div 2)

\* Mutant: & written for |.
Mut_or_as_and(a, b) == BitAnd(a, b)

RECURSIVE BitOr(_, _)
BitOr(a, b) ==
    IF a = 0 THEN b
    ELSE IF b = 0 THEN a
    ELSE (IF a % 2 = 1 \/ b % 2 = 1 THEN 1 ELSE 0) + 2 * BitOr(a \div 2, b \div 2)

ShiftRight(a, k) == a \div (2 ^ k)
ShiftLeft(a, k) == a * (2 ^ k)

\* d[k] = v on a Python dict: the key is added when absent.
SetItem(d, k, v) == [x \in (DOMAIN d) \cup {k} |-> IF x = k THEN v ELSE d[x]]

\* ------------------------------------------------------------- variables

VARIABLES
    page_size,      \* PageTable.page_size
    pt_entries,     \* PageTable.entries: vpn -> ppn
    tlb,            \* MMU.tlb: virtual address -> physical address
    is_palt,        \* MMU.is_palt: page-fault flag of the last translation
    levels_size,    \* CacheSystem.levels_size
    n_way,          \* CacheSystem.n_way
    cache_levels,   \* CacheSystem.cache_levels: sequence of SetAssociativeCache
    heap,           \* the live dict objects (blocks): reference -> contents
    storage,        \* Memory.storage: address -> datum
    sa_cache,       \* standalone SetAssociativeCache.cache: set index -> tags
    sa_usage,       \* standalone SetAssociativeCache.usage_order
    driver,         \* which object the caller drives in this run
    last,           \* the last call made and what it returned
    prev,           \* the call before it
    trace,          \* the calls made so far, where a run is a bounded sequence
    written         \* per virtual address, the payload of the latest write

vars == <<page_size, pt_entries, tlb, is_palt, levels_size, n_way, cache_levels,
          heap, storage, sa_cache, sa_usage, driver, last, prev, trace, written>>

\* --------------------------------------------------------------- PageTable

PageTable_page_size(kib) == kib * 1024

\* Mutant: an add for a virtual page already in the table is ignored.
Mut_add_keeps_first(entries, vpn, ppn) ==
    [v \in (DOMAIN entries) \cup {vpn} |-> IF v \in DOMAIN entries THEN entries[v] ELSE ppn]

add_entry(entries, vpn, ppn) ==
    [v \in (DOMAIN entries) \cup {vpn} |-> IF v = vpn THEN ppn ELSE entries[v]]

\* Mutant: a virtual page not in the table is taken as mapped to frame 0.
Mut_get_default_zero(entries, vpn) ==
    IF vpn \in DOMAIN entries THEN entries[vpn] ELSE 0

get_physical_page_number(entries, vpn) ==
    IF vpn \in DOMAIN entries THEN entries[vpn] ELSE NoneInt

remove_entry(entries, vpn) == [v \in (DOMAIN entries) \ {vpn} |-> entries[v]]

\* Mutant: update of an absent virtual page creates the entry.
Mut_update_upserts(entries, vpn, ppn) ==
    [exc |-> "none",
     entries |-> [v \in (DOMAIN entries) \cup {vpn} |-> IF v = vpn THEN ppn ELSE entries[v]]]

\* PageTable.update_entry: KeyError for a virtual page number not in the table.
update_entry(entries, vpn, ppn) ==
    IF vpn \in DOMAIN entries
    THEN [exc |-> "none", entries |-> [entries EXCEPT ![vpn] = ppn]]
    ELSE [exc |-> "KeyError", entries |-> entries]

\* PageTable.clear
clear(entries) == EmptyMap

\* ---------------------------------------------------------------- CacheSet

\* CacheSet.__init__
CacheSet_init(nw, bs) == [entries |-> <<>>, n_way |-> nw, block_size |-> bs]

\* Position of tag in the OrderedDict, 0 when absent.
IndexOf(entries, tag) ==
    IF \E i \in 1..Len(entries) : entries[i].tag = tag
    THEN CHOOSE i \in 1..Len(entries) : entries[i].tag = tag
    ELSE 0

\* tag in self.entries
CacheSet_check_hit(set, tag) == IndexOf(set.entries, tag) # 0

RemoveAt(entries, i) ==
    [j \in 1..(Len(entries) - 1) |-> IF j < i THEN entries[j] ELSE entries[j + 1]]

\* Mutant: the block is overwritten where the entry stands, without move_to_end.
Mut_set_in_place(entries, tag, blk) ==
    [j \in 1..Len(entries) |->
        IF entries[j].tag = tag THEN [tag |-> tag, blk |-> blk] ELSE entries[j]]

\* self.entries[tag] = block; self.entries.move_to_end(tag), for a tag present
SetAndMoveToEnd(entries, tag, blk) ==
    Append(RemoveAt(entries, IndexOf(entries, tag)), [tag |-> tag, blk |-> blk])

\* Mutant: a full set is not made room in.
Mut_pop_nothing(entries) == entries

\* Mutant: the newest entry is popped (popitem(last=True)).
Mut_pop_newest(entries) == SubSeq(entries, 1, Len(entries) - 1)

\* self.entries.popitem(last=False)
PopOldest(entries) == Tail(entries)

\* Mutant: the block is stored whatever its length.
Mut_add_unchecked(set, h, tag, blk) ==
    [exc |-> "none",
     set |-> [set EXCEPT !.entries = Append(set.entries, [tag |-> tag, blk |-> blk])]]

\* CacheSet.add_or_update; blk is a reference into the heap h.
CacheSet_add_or_update(set, h, tag, blk) ==
    IF Cardinality(DOMAIN h[blk]) > set.block_size
    THEN [exc |-> "ValueError", set |-> set]
    ELSE IF CacheSet_check_hit(set, tag)
    THEN [exc |-> "none",
          set |-> [set EXCEPT !.entries = SetAndMoveToEnd(set.entries, tag, blk)]]
    ELSE IF Len(set.entries) >= set.n_way /\ Len(set.entries) = 0
    THEN [exc |-> "KeyError", set |-> set]
    ELSE LET kept == IF Len(set.entries) >= set.n_way
                     THEN PopOldest(set.entries) ELSE set.entries
         IN  [exc |-> "none",
              set |-> [set EXCEPT !.entries = Append(kept, [tag |-> tag, blk |-> blk])]]

\* CacheSet.get_block
CacheSet_get_block(set, tag) ==
    IF CacheSet_check_hit(set, tag)
    THEN set.entries[IndexOf(set.entries, tag)].blk ELSE NoneInt

\* CacheSet.write_data: self.entries[tag][block_offset] = data mutates the
\* dict object the entry refers to; an absent tag returns False and writes
\* nothing.  The result is the heap after the call.
CacheSet_write_data(set, h, tag, block_offset, data) ==
    IF CacheSet_check_hit(set, tag)
    THEN LET r == CacheSet_get_block(set, tag)
         IN  [h EXCEPT ![r] = SetItem(h[r], block_offset, data)]
    ELSE h

\* CacheSet.read_data: self.entries[tag].get(offset, None); entries[tag]
\* raises KeyError for an absent tag.
CacheSet_read_data(set, h, tag, offset) ==
    IF ~CacheSet_check_hit(set, tag)
    THEN [exc |-> "KeyError", data |-> NoneVal]
    ELSE LET b == h[CacheSet_get_block(set, tag)]
         IN  [exc |-> "none",
              data |-> IF offset \in DOMAIN b THEN b[offset] ELSE NoneVal]

\* ----------------------------------------------------- SetAssociativeCache

\* SetAssociativeCache.__init__ as CacheSystem calls it: block_size and
\* cache_type keep their defaults.
SetAssociativeCache_init(level, size, line_size, nw) ==
    LET num_sets == size \div (line_size * nw)
    IN  [level |-> level,
         n_way |-> nw,
         line_size |-> line_size,
         num_sets |-> num_sets,
         block_size |-> BLOCK_SIZE,
         cache_sets |-> [i \in 0..(num_sets - 1) |-> CacheSet_init(nw, BLOCK_SIZE)],
         cache_type |-> "set_associative",
         offset_bits |-> bit_length(BLOCK_SIZE) - 1,
         index_bits |-> bit_length(num_sets) - 1]

get_set_index(c, address) ==
    IF c.cache_type \in {"direct_mapped", "set_associative"}
    THEN BitAnd(ShiftRight(address, c.offset_bits), ShiftLeft(1, c.index_bits) - 1)
    ELSE 0

\* Mutant: the tag of a fully associative cache is taken, address // line_size.
Mut_tag_by_line(c, address) == address \div c.line_size

get_tag(c, address) ==
    IF c.cache_type = "fully_associative"
    THEN address \div c.line_size
    ELSE LET set_index == get_set_index(c, address)
         IN  ShiftRight(address, bit_length(set_index) + bit_length(c.block_size) - 1)

get_offset(c, address) == address % c.block_size

\* SetAssociativeCache.check_hit returns the pair (hit, self.level).
Level_check_hit(c, address) ==
    [hit |-> CacheSet_check_hit(c.cache_sets[get_set_index(c, address)], get_tag(c, address)),
     level |-> c.level]

\* SetAssociativeCache.write_block
Level_write_block(c, h, address, blk) ==
    IF Cardinality(DOMAIN h[blk]) > c.block_size
    THEN [exc |-> "ValueError", cache |-> c]
    ELSE LET set_index == get_set_index(c, address)
             r == CacheSet_add_or_update(c.cache_sets[set_index], h, get_tag(c, address), blk)
         IN  [exc |-> r.exc,
              cache |-> [c EXCEPT !.cache_sets[set_index] = r.set]]

\* The truth value of what self.check_hit(address) returns: a 2-tuple, which
\* Python takes as true whatever it holds.
TupleTruth(pair) == TRUE

\* SetAssociativeCache.read_data
Level_read_data(c, h, address) ==
    IF TupleTruth(Level_check_hit(c, address))
    THEN CacheSet_read_data(c.cache_sets[get_set_index(c, address)], h,
                            get_tag(c, address), get_offset(c, address))
    ELSE [exc |-> "none", data |-> NoneVal]

\* SetAssociativeCache.write_data
Level_write_data(c, h, address, data) ==
    CacheSet_write_data(c.cache_sets[get_set_index(c, address)], h,
                        get_tag(c, address), get_offset(c, address), data)

\* SetAssociativeCache.get_block
Level_get_block(c, address) ==
    CacheSet_get_block(c.cache_sets[get_set_index(c, address)], get_tag(c, address))

\* ------------------------------------------------------------- CacheSystem

\* CacheSystem.__init__ / reset_caches: one SetAssociativeCache per size,
\* numbered from 1.
BuildLevels(sizes, line_size, nw) ==
    [i \in 1..Len(sizes) |-> SetAssociativeCache_init(i, sizes[i], line_size, nw)]

\* Mutant: the levels are probed from the farthest.
Mut_check_hit_farthest(levels, address, k) ==
    LET hits == {j \in k..Len(levels) : Level_check_hit(levels[j], address).hit}
    IN  IF hits = {} THEN [hit |-> FALSE, level |-> NoneInt]
        ELSE [hit |-> TRUE,
              level |-> levels[CHOOSE j \in hits : \A q \in hits : q <= j].level]

\* CacheSystem.check_hit: the first level that reports a hit, as (True, level);
\* (None, None) when no level does.
RECURSIVE check_hit_from(_, _, _)
check_hit_from(levels, address, k) ==
    IF k > Len(levels) THEN [hit |-> FALSE, level |-> NoneInt]
    ELSE LET r == Level_check_hit(levels[k], address)
         IN  IF r.hit THEN [hit |-> TRUE, level |-> r.level]
             ELSE check_hit_from(levels, address, k + 1)

CacheSystem_check_hit(levels, address) == check_hit_from(levels, address, 1)

\* for upper_level in range(level): cache_levels[upper_level].write_data(...)
RECURSIVE write_upper_levels(_, _, _, _, _, _)
write_upper_levels(levels, h, address, data, u, k) ==
    IF u >= k THEN h
    ELSE write_upper_levels(levels, Level_write_data(levels[u], h, address, data),
                            address, data, u + 1, k)

\* CacheSystem.read_data: [exc, data, heap]; exc is the exception that leaves
\* the call, "none" when it returns.
RECURSIVE read_data_from(_, _, _, _)
read_data_from(levels, h, address, k) ==
    IF k > Len(levels) THEN [exc |-> "none", data |-> NoneVal, heap |-> h]
    ELSE LET r == Level_read_data(levels[k], h, address)
         IN  IF r.exc # "none" THEN [exc |-> r.exc, data |-> NoneVal, heap |-> h]
             ELSE IF r.data # NoneVal
             THEN [exc |-> "none", data |-> r.data,
                   heap |-> write_upper_levels(levels, h, address, r.data, 1, k)]
             ELSE read_data_from(levels, h, address, k + 1)

CacheSystem_read_data(levels, h, address) == read_data_from(levels, h, address, 1)

\* CacheSystem.write_data: level.write_data at every level, in order.
CacheSystem_write_data(levels, h, address, data) ==
    write_upper_levels(levels, h, address, data, 1, Len(levels) + 1)

\* CacheSystem.load_block: cache.write_block at every level, in order; an
\* exception leaves the levels before it loaded.
RECURSIVE load_block_from(_, _, _, _, _)
load_block_from(levels, h, address, blk, k) ==
    IF k > Len(levels) THEN [exc |-> "none", levels |-> levels]
    ELSE LET r == Level_write_block(levels[k], h, address, blk)
         IN  IF r.exc # "none" THEN [exc |-> r.exc, levels |-> levels]
             ELSE load_block_from([levels EXCEPT ![k] = r.cache], h, address, blk, k + 1)

\* Mutant: the block is loaded into the first level only.
Mut_load_block_first_level(levels, h, address, blk) ==
    LET r == Level_write_block(levels[1], h, address, blk)
    IN  [exc |-> r.exc,
         levels |-> IF r.exc = "none" THEN [levels EXCEPT ![1] = r.cache] ELSE levels]

\* Mutant: the block is loaded into the last level only.
Mut_load_block_last_level(levels, h, address, blk) ==
    load_block_from(levels, h, address, blk, Len(levels))

CacheSystem_load_block(levels, h, address, blk) ==
    load_block_from(levels, h, address, blk, 1)

\* Mutant: configure_cache without the call of reset_caches.
Mut_configure_keeps_levels(levels, line_size, l1_size, l2_size, l3_size, nw) ==
    [levels_size |-> <<l1_size, l2_size, l3_size>>, n_way |-> nw, cache_levels |-> levels]

\* CacheSystem.configure_cache on a system whose levels are levels: the
\* attributes it assigns and the levels reset_caches builds.
CacheSystem_configure_cache(levels, line_size, l1_size, l2_size, l3_size, nw) ==
    [levels_size |-> <<l1_size, l2_size, l3_size>>,
     n_way |-> nw,
     cache_levels |-> BuildLevels(<<l1_size, l2_size, l3_size>>, line_size, nw)]

\* ------------------------------------------------------------- dict objects

\* The references held by the cache entries and by Memory.storage.
SetRefs(set) == {set.entries[j].blk : j \in 1..Len(set.entries)}

LevelRefs(levels) ==
    UNION {UNION {SetRefs(levels[l].cache_sets[i]) : i \in DOMAIN levels[l].cache_sets} :
           l \in DOMAIN levels}

StorageRefs(st) == {st[a][2] : a \in {x \in DOMAIN st : st[x][1] = "dict"}}

\* Reference counting: an object no entry and no storage slot refers to is gone.
Collect(levels, st, h) ==
    [r \in (DOMAIN h) \cap (LevelRefs(levels) \cup StorageRefs(st)) |-> h[r]]

\* The name of a newly created dict object: the address it is created for, or,
\* when an object of that name is still referred to, the smallest positive
\* integer that names no live object.
NewRef(inuse, address) ==
    IF address \notin inuse THEN address
    ELSE CHOOSE r \in 1..(Cardinality(inuse) + 1) :
            r \notin inuse /\ \A q \in 1..(r - 1) : q \in inuse

\* ------------------------------------------------------------------ Memory

\* The dict Memory.get_block builds: {i: b"data" + bytes([i]) for i in range(block_size)}.
SynthBlock == [i \in 0..(BLOCK_SIZE - 1) |-> <<"bytes", i>>]

\* Memory.get_block: builds a new dict object on every call, stores it under
\* the address itself (not the block start) and returns it.
Memory_get_block(st, h, levels, address) ==
    LET others == LevelRefs(levels) \cup
                  StorageRefs([a \in (DOMAIN st) \ {address} |-> st[a]])
        ref == NewRef(others, address)
    IN  [storage |-> SetItem(st, address, DictRef(ref)),
         heap |-> SetItem(h, ref, SynthBlock),
         block |-> ref]

\* Mutant: the write to main memory is dropped.
Mut_write_data_dropped(st, address, data) == st

\* Memory.write_data / Memory.write
Memory_write_data(st, address, data) == SetItem(st, address, data)

\* Memory.read
Memory_read(st, address) ==
    IF address \in DOMAIN st THEN st[address] ELSE NoneVal

\* --------------------------------------------------------------------- MMU

\* Mutant: the translation is not stored.
Mut_tlb_not_updated(t, virtual_address, physical_address) == t

\* Mutant: a TLB of one entry, the new translation replaces what was cached.
Mut_tlb_single_entry(t, virtual_address, physical_address) ==
    [x \in {virtual_address} |-> physical_address]

\* MMU.update_tlb
update_tlb(t, virtual_address, physical_address) ==
    SetItem(t, virtual_address, physical_address)

\* Mutant: the page-fault service does not install the mapping.
Mut_fault_not_installed(entries, virtual_page_number, frame) ==
    [ppn |-> frame, entries |-> entries]

\* MMU.handle_page_fault: frame is the value np.random.randint returned.
handle_page_fault(entries, virtual_page_number, frame) ==
    [ppn |-> frame, entries |-> add_entry(entries, virtual_page_number, frame)]

\* MMU.translate_address on TLB t and page table entries; the result carries
\* the state after the call, the exception that leaves it ("none" when it
\* returns) and which path served it.
translate_address(t, entries, psize, virtual_address, frame) ==
    IF virtual_address \in DOMAIN t
    THEN [exc |-> "none", physical_address |-> t[virtual_address], tlb |-> t,
          entries |-> entries, is_palt |-> FALSE, tlb_hit |-> TRUE]
    ELSE LET offset == BitAnd(virtual_address, psize - 1)
             offset_bits == bit_length(psize - 1)
             virtual_page_number == ShiftRight(virtual_address, offset_bits)
             found == get_physical_page_number(entries, virtual_page_number)
             fault == (found = NoneInt)
             hpf == handle_page_fault(entries, virtual_page_number, frame)
             physical_page_number == IF fault THEN hpf.ppn ELSE found
             entries2 == IF fault THEN hpf.entries ELSE entries
         IN  IF physical_page_number # NoneInt
             THEN LET physical_address ==
                          BitOr(ShiftLeft(physical_page_number, offset_bits), offset)
                  IN  [exc |-> "none", physical_address |-> physical_address,
                       tlb |-> update_tlb(t, virtual_address, physical_address),
                       entries |-> entries2, is_palt |-> fault, tlb_hit |-> FALSE]
             ELSE [exc |-> "MemoryError", physical_address |-> NoneInt, tlb |-> t,
                   entries |-> entries2, is_palt |-> fault, tlb_hit |-> FALSE]

\* The operation_result dict; cache_hit False is 0, physical_address None is NoneInt.
OperationResult(cache_hit, page_fault, physical_address, data) ==
    [cache_hit |-> cache_hit, page_fault |-> page_fault,
     physical_address |-> physical_address, data |-> data]

\* MMU.process_virtual_address from the current state; input_data NoneVal is a
\* read.  The result carries the state after the call, the exception that
\* leaves it ("none" when it returns operation_result) and the level the
\* probe found (0 for a miss).
process_virtual_address(virtual_address, input_data, frame) ==
    LET tr == translate_address(tlb, pt_entries, page_size, virtual_address, frame)
        pa == tr.physical_address
        base == [exc |-> "none", tlb |-> tr.tlb, entries |-> tr.entries,
                 is_palt |-> tr.is_palt, tlb_hit |-> tr.tlb_hit,
                 levels |-> cache_levels, heap |-> heap, storage |-> storage,
                 probe |-> 0,
                 result |-> OperationResult(0, tr.is_palt, pa, NoneVal)]
    IN  IF tr.exc = "MemoryError"
        THEN [base EXCEPT !.result = OperationResult(0, TRUE, NoneInt, NoneVal)]
        ELSE LET probe == CacheSystem_check_hit(cache_levels, pa)
             IN  IF probe.hit
                 THEN IF input_data = NoneVal
                      THEN LET rd == CacheSystem_read_data(cache_levels, heap, pa)
                           IN  [base EXCEPT !.exc = rd.exc, !.heap = rd.heap,
                                            !.probe = probe.level,
                                            !.result = OperationResult(probe.level,
                                                           tr.is_palt, pa, rd.data)]
                      ELSE LET h1 == CacheSystem_write_data(cache_levels, heap, pa, input_data)
                           IN  [base EXCEPT !.heap = h1, !.probe = probe.level,
                                            !.storage = Memory_write_data(storage, pa, input_data),
                                            !.result = OperationResult(probe.level,
                                                           tr.is_palt, pa, NoneVal)]
                 ELSE LET gb == Memory_get_block(storage, heap, cache_levels, pa)
                          lb == CacheSystem_load_block(cache_levels, gb.heap, pa, gb.block)
                      IN  IF lb.exc # "none"
                          THEN [base EXCEPT !.exc = lb.exc, !.levels = lb.levels,
                                            !.heap = gb.heap, !.storage = gb.storage]
                          ELSE IF input_data = NoneVal
                          THEN LET rd == CacheSystem_read_data(lb.levels, gb.heap, pa)
                               IN  [base EXCEPT !.exc = rd.exc, !.levels = lb.levels,
                                                !.heap = rd.heap, !.storage = gb.storage,
                                                !.result = OperationResult(0, tr.is_palt,
                                                               pa, rd.data)]
                          ELSE LET h1 == CacheSystem_write_data(lb.levels, gb.heap, pa,
                                                                input_data)
                               IN  [base EXCEPT !.levels = lb.levels, !.heap = h1,
                                                !.storage = Memory_write_data(gb.storage, pa,
                                                                              input_data),
                                                !.result = OperationResult(0, tr.is_palt,
                                                               pa, NoneVal)]

\* ------------------------------------------------- standalone n-way cache

\* The cache test() builds: SetAssociativeCache(2048, 64, 2).
SA_CACHE_SIZE == 2048
SA_BLOCK_SIZE == 64
SA_N == 2

\* SetAssociativeCache.__init__ of TestNwaySetAssociativeCacheWithLRU.py
Standalone_num_sets == SA_CACHE_SIZE \div (SA_BLOCK_SIZE * SA_N)

Standalone_cache_init == [i \in 0..(Standalone_num_sets - 1) |-> {}]
Standalone_usage_init == [i \in 0..(Standalone_num_sets - 1) |-> EmptyMap]

\* SetAssociativeCache._get_set_index
Standalone_get_set_index(address) ==
    LET offset_bits == bit_length(SA_BLOCK_SIZE) - 1
        index_bits == bit_length(Standalone_num_sets) - 1
    IN  BitAnd(ShiftRight(address, offset_bits), ShiftLeft(1, index_bits) - 1)

\* The tag access_cache computes.
Standalone_tag(address) ==
    ShiftRight(address, bit_length(Standalone_get_set_index(address))
                        + bit_length(SA_BLOCK_SIZE) - 1)

\* max(usage.values(), default=0)
MaxUsageOf(usage) ==
    IF DOMAIN usage = {} THEN 0
    ELSE CHOOSE m \in {usage[t] : t \in DOMAIN usage} :
            \A t \in DOMAIN usage : usage[t] <= m

\* Mutant: the entry replaced is the one used last.
Mut_lru_is_newest(usage) ==
    CHOOSE t \in DOMAIN usage : \A u \in DOMAIN usage : usage[t] >= usage[u]

\* min(usage, key=usage.get): the tag of least usage value (the values of a
\* set's entries are pairwise different: each is assigned max + 1).
LruTag(usage) ==
    CHOOSE t \in DOMAIN usage : \A u \in DOMAIN usage : usage[t] <= usage[u]

Without(d, k) == [x \in (DOMAIN d) \ {k} |-> d[x]]

\* SetAssociativeCache.access_cache on (cache, usage_order): the value
\* returned (hit), the state after the call and the tag evicted, if any.
access_cache(cache, usage_order, n, address) ==
    LET set_index == Standalone_get_set_index(address)
        tag == Standalone_tag(address)
        tags == cache[set_index]
        usage == usage_order[set_index]
    IN  IF tag \in tags
        THEN [hit |-> TRUE, cache |-> cache, evicted |-> NoneInt,
              usage_order |-> [usage_order EXCEPT
                                 ![set_index] = SetItem(usage, tag, MaxUsageOf(usage) + 1)]]
        ELSE IF Cardinality(tags) < n
        THEN [hit |-> FALSE, evicted |-> NoneInt,
              cache |-> [cache EXCEPT ![set_index] = tags \cup {tag}],
              usage_order |-> [usage_order EXCEPT
                                 ![set_index] = SetItem(usage, tag, MaxUsageOf(usage) + 1)]]
        ELSE LET lru_tag == LruTag(usage)
                 kept == Without(usage, lru_tag)
             IN  [hit |-> FALSE, evicted |-> lru_tag,
                  cache |-> [cache EXCEPT ![set_index] = (tags \ {lru_tag}) \cup {tag}],
                  usage_order |-> [usage_order EXCEPT
                                     ![set_index] = SetItem(kept, tag, MaxUsageOf(kept) + 1)]]

\* ------------------------------------------------------------ construction

\* The page table main() and test_get_physical_address() build:
\* 0x1111 -> 0x1101, 0x1112 -> 0x1102, 0x0001 -> 0x1001, 0x0002 -> 0x1002.
DemoPageTable ==
    add_entry(add_entry(add_entry(add_entry(EmptyMap, 4369, 4353), 4370, 4354),
                        1, 4097), 2, 4098)

\* The record of a call: which operation, its arguments, the exception that
\* left it ("none" when it returned), what it returned, and the path taken.
\* arg is the address (or tag) argument; evicted is the tag a put or an access
\* removed from its set, None if none; added tells whether the call put an
\* entry into the page table.
Call(op, va, input, exc, result, tlb_hit, probe, evicted) ==
    [op |-> op, arg |-> va, input |-> input, exc |-> exc, result |-> result,
     tlb_hit |-> tlb_hit, probe |-> probe, evicted |-> evicted, added |-> FALSE]

\* The record of a call of translate_address or of a PageTable method.
TranslationCall(op, va, exc, page_fault, physical_address, tlb_hit, added) ==
    [Call(op, va, NoneVal, exc, OperationResult(0, page_fault, physical_address, NoneVal),
          tlb_hit, 0, NoneInt) EXCEPT !.added = added]

NoResult == OperationResult(0, FALSE, NoneInt, NoneVal)

NoCall == Call("none", NoneInt, NoneVal, "none", NoResult, FALSE, 0, NoneInt)

InitSystem(kib, sizes, nw) ==
    /\ page_size = PageTable_page_size(kib)
    /\ pt_entries = DemoPageTable
    /\ tlb = EmptyMap
    /\ is_palt = FALSE
    /\ levels_size = sizes
    /\ n_way = nw
    /\ cache_levels = BuildLevels(sizes, LINE_SIZE, nw)
    /\ heap = EmptyMap
    /\ storage = EmptyMap
    /\ sa_cache = Standalone_cache_init
    /\ sa_usage = Standalone_usage_init
    /\ last = NoCall
    /\ prev = NoCall
    /\ trace = <<>>
    /\ written = EmptyMap

\* ---------------------------------------------------------- the CPU's calls

\* levels_size for CacheSystem(levels_size, 3, line_size, n_way) giving the
\* levels L1_SETS, L2_SETS and L3_SETS sets of nw lines.
LevelSizes(nw) ==
    <<L1_SETS * LINE_SIZE * nw, L2_SETS * LINE_SIZE * nw, L3_SETS * LINE_SIZE * nw>>

VA(vpn, offset) == vpn * 4096 + offset

\* Virtual addresses the CPU issues: page 0x1112 (mapped to frame 0x1102) at
\* offsets 0, 32 and 64, and page 0x5 (unmapped) at offset 17.
CpuAddresses == {VA(4370, 0), VA(4370, 32), VA(4370, 64), VA(5, 17)}

\* Values np.random.randint(0x1000, 0xFFFFF) may return: 0x1102 and 0x1103.
FramePool == {4354, 4355}

\* Whether translate_address(va) reaches handle_page_fault, the only caller
\* of np.random.randint.
PageFaults(va) ==
    /\ va \notin DOMAIN tlb
    /\ get_physical_page_number(pt_entries,
           ShiftRight(va, bit_length(page_size - 1))) = NoneInt

\* The values the random draw of a call on va may take; no draw, no choice.
Draws(va) == IF PageFaults(va) THEN FramePool ELSE {NoneInt}

Init ==
    /\ InitSystem(PAGE_SIZE_KiB, LevelSizes(MMU_WAYS), MMU_WAYS)
    /\ driver = "mmu"

\* mmu.process_virtual_address(va, input): a read when input is None.
Process(va, input, frame) ==
    \E r \in {process_virtual_address(va, input, frame)} :
        /\ tlb' = r.tlb
        /\ pt_entries' = r.entries
        /\ is_palt' = r.is_palt
        /\ cache_levels' = r.levels
        /\ storage' = r.storage
        /\ heap' = Collect(r.levels, r.storage, r.heap)
        /\ last' = [Call("process", va, input, r.exc, r.result, r.tlb_hit, r.probe, NoneInt)
                        EXCEPT !.added = (r.entries # pt_entries)]
        /\ written' = IF input # NoneVal /\ r.exc = "none"
                      THEN SetItem(written, va, input) ELSE written
        /\ UNCHANGED <<page_size, levels_size, n_way, sa_cache, sa_usage, driver, prev, trace>>

ProcessRead == \E va \in CpuAddresses : \E frame \in Draws(va) : Process(va, NoneVal, frame)

ProcessWrite ==
    \E va \in CpuAddresses, d \in Payloads : \E frame \in Draws(va) : Process(va, d, frame)

Next == ProcessRead \/ ProcessWrite

Spec == Init /\ [][Next]_vars

\* ------------------------------------------------------------ observations

\* The block holding address is resident at level k (1 is nearest the CPU).
Resident(k, address) == Level_check_hit(cache_levels[k], address).hit

\* What level k holds at address: the element at the address's offset of its
\* resident block, None when the block is not resident or has no such element.
DatumAt(k, address) ==
    IF Resident(k, address)
    THEN Level_read_data(cache_levels[k], heap, address).data ELSE NoneVal

Levels == DOMAIN cache_levels

LastIsRead == last.op = "process" /\ last.input = NoneVal
LastIsWrite == last.op = "process" /\ last.input # NoneVal

\* ------------------------------------------------- puts made by a caller

\* A dict a caller builds with m elements.
CallerBlock(m) == [i \in 0..(m - 1) |-> <<"bytes", i>>]

\* The name of the object a caller builds for the entry (set i, tag) of level k.
SlotName(k, i, tag) == (tag * 8 + i) * 4 + k

\* The tag a put removed from a set, None if none.
EvictedTag(before, after) ==
    LET gone == {before[j].tag : j \in 1..Len(before)} \ {after[j].tag : j \in 1..Len(after)}
    IN  IF gone = {} THEN NoneInt ELSE CHOOSE t \in gone : TRUE

PutTags == {0, 2, 4}
PutAddresses == {0, 32, 64}
BlockLengths == {BLOCK_SIZE, BLOCK_SIZE + 1}

InitPut ==
    /\ InitSystem(PAGE_SIZE_KiB, LevelSizes(N_WAY), N_WAY)
    /\ driver \in {"hierarchy", "standalone"}

\* cache_levels[k].cache_sets[i].add_or_update(tag, block), block a new dict of
\* m elements.
AddOrUpdate(k, i, tag, m) ==
    LET ref == SlotName(k, i, tag)
        set == cache_levels[k].cache_sets[i]
    IN  \E r \in {CacheSet_add_or_update(set, SetItem(heap, ref, CallerBlock(m)), tag, ref)} :
            /\ cache_levels' = [cache_levels EXCEPT ![k].cache_sets[i] = r.set]
            /\ heap' = IF r.exc = "none"
                       THEN Collect(cache_levels', storage, SetItem(heap, ref, CallerBlock(m)))
                       ELSE heap
            /\ last' = Call("add_or_update", tag, NoneVal, r.exc, NoResult, FALSE, k,
                            EvictedTag(set.entries, r.set.entries))

\* cache_levels[k].write_block(address, block), block a new dict of m elements.
WriteBlock(k, address, m) ==
    LET c == cache_levels[k]
        i == get_set_index(c, address)
        ref == SlotName(k, i, get_tag(c, address))
    IN  \E r \in {Level_write_block(c, SetItem(heap, ref, CallerBlock(m)), address, ref)} :
            /\ cache_levels' = [cache_levels EXCEPT ![k] = r.cache]
            /\ heap' = IF r.exc = "none"
                       THEN Collect(cache_levels', storage, SetItem(heap, ref, CallerBlock(m)))
                       ELSE heap
            /\ last' = Call("write_block", address, NoneVal, r.exc, NoResult, FALSE, k,
                            EvictedTag(c.cache_sets[i].entries, r.cache.cache_sets[i].entries))

HierarchyFrame ==
    UNCHANGED <<page_size, pt_entries, tlb, is_palt, levels_size, n_way, storage,
                sa_cache, sa_usage, driver, prev, written>>

PutAddOrUpdate ==
    /\ driver = "hierarchy"
    /\ \E i \in DOMAIN cache_levels[1].cache_sets, tag \in PutTags, m \in BlockLengths :
            AddOrUpdate(1, i, tag, m)
    /\ HierarchyFrame
    /\ UNCHANGED trace

PutWriteBlock ==
    /\ driver = "hierarchy"
    /\ \E k \in Levels, address \in PutAddresses, m \in BlockLengths :
            WriteBlock(k, address, m)
    /\ HierarchyFrame
    /\ UNCHANGED trace

\* Addresses given to the standalone cache: the first three of the default
\* test sequence (all of set 0) and one of set 1.
StandaloneAddresses == {268435456, 536870912, 805306368, 268435520}

\* cache.access_cache(address) on the standalone cache.
AccessCache(address) ==
    \E r \in {access_cache(sa_cache, sa_usage, SA_N, address)} :
        /\ sa_cache' = r.cache
        /\ sa_usage' = r.usage_order
        /\ last' = Call("access_cache", address, NoneVal, "none",
                        OperationResult(IF r.hit THEN 1 ELSE 0, FALSE, NoneInt, NoneVal),
                        FALSE, 0, r.evicted)

StandaloneFrame ==
    UNCHANGED <<page_size, pt_entries, tlb, is_palt, levels_size, n_way, cache_levels,
                heap, storage, driver, prev, written>>

PutAccessCache ==
    /\ driver = "standalone"
    /\ \E address \in StandaloneAddresses :
            /\ MaxUsageOf(sa_usage[Standalone_get_set_index(address)]) < MaxUsage
            /\ AccessCache(address)
    /\ StandaloneFrame
    /\ UNCHANGED trace

NextPut == PutAddOrUpdate \/ PutWriteBlock \/ PutAccessCache

SpecPut == InitPut /\ [][NextPut]_vars

\* ------------------------------------------------------- the LRU scenarios

\* A step of an access sequence: the set and tag it fell on, whether it hit,
\* and the tag it evicted.
Step(op, arg, set, tag, hit, evicted) ==
    [op |-> op, arg |-> arg, set |-> set, tag |-> tag, hit |-> hit, evicted |-> evicted]

InitLRU ==
    /\ InitSystem(PAGE_SIZE_KiB, LevelSizes(N_WAY), N_WAY)
    /\ driver \in {"cacheset", "standalone"}

\* Blocks 0, 2 and 4 fall on set 0 of level 2, block 1 on its set 1.
LruAddresses == {0, 16, 32, 64}

\* A block is loaded into a set of level 2 through write_block / add_or_update.
LruPut ==
    /\ driver = "cacheset"
    /\ Len(trace) < MaxTrace
    /\ \E address \in LruAddresses :
            /\ WriteBlock(2, address, BLOCK_SIZE)
            /\ trace' = Append(trace, Step("put", address,
                                           get_set_index(cache_levels[2], address),
                                           get_tag(cache_levels[2], address),
                                           Resident(2, address), last'.evicted))
    /\ HierarchyFrame

\* An address is given to the standalone cache's access_cache.
LruAccess ==
    /\ driver = "standalone"
    /\ Len(trace) < MaxTrace
    /\ \E address \in StandaloneAddresses :
            /\ AccessCache(address)
            /\ trace' = Append(trace, Step("access", address,
                                           Standalone_get_set_index(address),
                                           Standalone_tag(address),
                                           last'.result.cache_hit = 1, last'.evicted))
    /\ StandaloneFrame

NextLRU == LruPut \/ LruAccess

SpecLRU == InitLRU /\ [][NextLRU]_vars

\* --------------------------------------------------- the translation path

\* PageTable(PAGE_SIZE_KiB) for these page sizes, in KiB.
PageSizesKiB == {1, 2, 4}

\* Virtual addresses translated: 0x1112000 and 0x1112C05 (page 0x1112 of 4 KiB
\* pages) and 0x805 (a page the demo table maps when pages are 1 or 2 KiB).
TranslateAddresses == {VA(4370, 0), VA(4370, 3077), 2053}

\* The virtual page number of va for the page size in use.
VpnOf(va) == va \div page_size

AdminVpns == {VpnOf(va) : va \in TranslateAddresses}

InitTranslate ==
    /\ \E kib \in PageSizesKiB : InitSystem(kib, LevelSizes(N_WAY), N_WAY)
    /\ driver = "translate"

TranslateFrame ==
    UNCHANGED <<page_size, levels_size, n_way, cache_levels, heap, storage,
                sa_cache, sa_usage, driver, trace, written>>

\* mmu.translate_address(va).  prev keeps the call before this one when it was
\* the same call on the same address.
Translate ==
    /\ \E va \in TranslateAddresses : \E frame \in Draws(va) :
         \E r \in {translate_address(tlb, pt_entries, page_size, va, frame)} :
            /\ tlb' = r.tlb
            /\ pt_entries' = r.entries
            /\ is_palt' = r.is_palt
            /\ last' = TranslationCall("translate", va, r.exc, r.is_palt,
                                       r.physical_address, r.tlb_hit,
                                       r.entries # pt_entries)
            /\ prev' = IF last.op = "translate" /\ last.arg = va THEN last ELSE NoCall
    /\ TranslateFrame

\* A PageTable method called by the operating-system side; this run records
\* only that one was called.
AdminCall(op, vpn, exc) ==
    TranslationCall("page_table", NoneInt, "none", FALSE, NoneInt, FALSE, FALSE)

\* page_table.add_entry(vpn, ppn)
PtAdd ==
    /\ \E vpn \in AdminVpns, ppn \in FramePool :
            /\ pt_entries' = add_entry(pt_entries, vpn, ppn)
            /\ last' = AdminCall("add_entry", vpn, "none")
    /\ prev' = NoCall
    /\ UNCHANGED <<tlb, is_palt>>
    /\ TranslateFrame

\* page_table.update_entry(vpn, ppn)
PtUpdate ==
    /\ \E vpn \in AdminVpns, ppn \in FramePool :
         \E r \in {update_entry(pt_entries, vpn, ppn)} :
            /\ pt_entries' = r.entries
            /\ last' = AdminCall("update_entry", vpn, r.exc)
    /\ prev' = NoCall
    /\ UNCHANGED <<tlb, is_palt>>
    /\ TranslateFrame

\* page_table.remove_entry(vpn)
PtRemove ==
    /\ \E vpn \in AdminVpns :
            /\ pt_entries' = remove_entry(pt_entries, vpn)
            /\ last' = AdminCall("remove_entry", vpn, "none")
    /\ prev' = NoCall
    /\ UNCHANGED <<tlb, is_palt>>
    /\ TranslateFrame

\* page_table.clear()
PtClear ==
    /\ pt_entries' = clear(pt_entries)
    /\ last' = AdminCall("clear", NoneInt, "none")
    /\ prev' = NoCall
    /\ UNCHANGED <<tlb, is_palt>>
    /\ TranslateFrame

NextTranslate == Translate \/ PtAdd \/ PtUpdate \/ PtRemove \/ PtClear

SpecTranslate == InitTranslate /\ [][NextTranslate]_vars

\* ------------------------------------------------- the page table by itself

\* The record of a PageTable method call: the arguments (None where the method
\* has none), the exception that left it and the value returned.
TableCall(op, vpn, ppn, exc, returned) ==
    [op |-> op, vpn |-> vpn, ppn |-> ppn, exc |-> exc, returned |-> returned]

\* Virtual and physical page numbers given to the PageTable methods.
TableVpns == {1, 2, 4370}
TablePpns == {4097, 4354, 4355}

\* PageTable(PAGE_SIZE_KiB): entries = {}.
InitPageTable ==
    /\ page_size = PageTable_page_size(PAGE_SIZE_KiB)
    /\ pt_entries = EmptyMap
    /\ tlb = EmptyMap
    /\ is_palt = FALSE
    /\ levels_size = LevelSizes(N_WAY)
    /\ n_way = N_WAY
    /\ cache_levels = BuildLevels(LevelSizes(N_WAY), LINE_SIZE, N_WAY)
    /\ heap = EmptyMap
    /\ storage = EmptyMap
    /\ sa_cache = Standalone_cache_init
    /\ sa_usage = Standalone_usage_init
    /\ driver = "pagetable"
    /\ last = TableCall("none", NoneInt, NoneInt, "none", NoneInt)
    /\ prev = NoCall
    /\ trace = <<>>
    /\ written = EmptyMap

TableFrame ==
    UNCHANGED <<page_size, tlb, is_palt, levels_size, n_way, cache_levels, heap,
                storage, sa_cache, sa_usage, driver, trace>>

\* page_table.add_entry(vpn, ppn).  written keeps, per virtual page, the ppn of
\* the latest add_entry made since any other method last changed that page;
\* prev keeps the earlier add_entry this one supersedes.
TableAdd ==
    /\ \E vpn \in TableVpns, ppn \in TablePpns :
            /\ pt_entries' = add_entry(pt_entries, vpn, ppn)
            /\ written' = SetItem(written, vpn, ppn)
            /\ last' = TableCall("add_entry", vpn, ppn, "none", NoneInt)
            /\ prev' = IF vpn \in DOMAIN written
                       THEN TableCall("add_entry", vpn, written[vpn], "none", NoneInt)
                       ELSE NoCall
    /\ TableFrame

\* page_table.get_physical_page_number(vpn)
TableGet ==
    /\ \E vpn \in TableVpns :
            last' = TableCall("get_physical_page_number", vpn, NoneInt, "none",
                              get_physical_page_number(pt_entries, vpn))
    /\ UNCHANGED <<pt_entries, written, prev>>
    /\ TableFrame

\* page_table.update_entry(vpn, ppn)
TableUpdate ==
    /\ \E vpn \in TableVpns, ppn \in TablePpns :
         \E r \in {update_entry(pt_entries, vpn, ppn)} :
            /\ pt_entries' = r.entries
            /\ written' = IF r.exc = "none" THEN Without(written, vpn) ELSE written
            /\ last' = TableCall("update_entry", vpn, ppn, r.exc, NoneInt)
    /\ prev' = NoCall
    /\ TableFrame

\* page_table.remove_entry(vpn)
TableRemove ==
    /\ \E vpn \in TableVpns :
            /\ pt_entries' = remove_entry(pt_entries, vpn)
            /\ written' = Without(written, vpn)
            /\ last' = TableCall("remove_entry", vpn, NoneInt, "none", NoneInt)
    /\ prev' = NoCall
    /\ TableFrame

\* page_table.clear()
TableClear ==
    /\ pt_entries' = clear(pt_entries)
    /\ written' = EmptyMap
    /\ last' = TableCall("clear", NoneInt, NoneInt, "none", NoneInt)
    /\ prev' = NoCall
    /\ TableFrame

NextPageTable == TableAdd \/ TableGet \/ TableUpdate \/ TableRemove \/ TableClear

SpecPageTable == InitPageTable /\ [][NextPageTable]_vars

\* ------------------------------------------- the LRU test run and run again

\* The short address sequences are of this length.
ShortLen == 3

\* test_addrs of test_lru_effectiveness: 0x10000000, 0x20000000, 0x30000000,
\* 0x40000000, 0x10000000, 0x20000000, 0x50000000, 0x10000000.
DefaultSequence ==
    <<268435456, 536870912, 805306368, 1073741824,
      268435456, 536870912, 1342177280, 268435456>>

\* The sequences run: the default one and every short one over the addresses
\* given to the standalone cache.
TestSequences == {DefaultSequence} \cup [1..ShortLen -> StandaloneAddresses]

\* Mutant: the new cache is handed the sets and the usage order of the old.
Mut_new_keeps_old(old) == old

\* SetAssociativeCache(cache_size, block_size, n) constructed while an earlier
\* instance old exists: the lists of dicts are built anew.
Standalone_new(old) ==
    [cache |-> Standalone_cache_init, usage_order |-> Standalone_usage_init]

\* The step that stands in the trace for the construction of the second cache.
Constructed == Step("construct", NoneInt, NoneInt, NoneInt, FALSE, NoneInt)

\* Where that step is in the trace, 0 if the second cache is not built yet.
ConstructedAt ==
    IF \E p \in 1..Len(trace) : trace[p] = Constructed
    THEN CHOOSE p \in 1..Len(trace) : trace[p] = Constructed
    ELSE 0

InitReplay ==
    /\ InitSystem(PAGE_SIZE_KiB, LevelSizes(N_WAY), N_WAY)
    /\ driver = "replay"

AccessStep(address) ==
    Step("access", address, Standalone_get_set_index(address), Standalone_tag(address),
         last'.result.cache_hit = 1, last'.evicted)

\* hit_miss = [self.access_cache(addr) for addr in test_addrs] on the first
\* cache: the next address of a sequence is accessed.
ReplayFirstRun ==
    /\ ConstructedAt = 0
    /\ \E s \in TestSequences :
            /\ Len(trace) < Len(s)
            /\ \A i \in 1..Len(trace) : trace[i].arg = s[i]
            /\ AccessCache(s[Len(trace) + 1])
            /\ trace' = Append(trace, AccessStep(s[Len(trace) + 1]))
    /\ StandaloneFrame

\* A second cache of the same configuration is constructed.
ReplayConstruct ==
    /\ ConstructedAt = 0
    /\ Len(trace) > 0
    /\ \E r \in {Standalone_new([cache |-> sa_cache, usage_order |-> sa_usage])} :
            /\ sa_cache' = r.cache
            /\ sa_usage' = r.usage_order
    /\ trace' = Append(trace, Constructed)
    /\ last' = Call("construct", NoneInt, NoneVal, "none", NoResult, FALSE, 0, NoneInt)
    /\ StandaloneFrame

\* The same sequence is run on the second cache.
ReplaySecondRun ==
    /\ ConstructedAt > 0
    /\ Len(trace) - ConstructedAt < ConstructedAt - 1
    /\ \E address \in {trace[Len(trace) - ConstructedAt + 1].arg} :
            /\ AccessCache(address)
            /\ trace' = Append(trace, AccessStep(address))
    /\ StandaloneFrame

NextReplay == ReplayFirstRun \/ ReplayConstruct \/ ReplaySecondRun

SpecReplay == InitReplay /\ [][NextReplay]_vars

\* ------------------------------------------- the cache system by itself

\* The record of a call on the cache system: arg is the address (the tag for
\* add_or_update), set and level say where a call on one set or one level was
\* made, len is the length of the block handed over, hit and found are what
\* check_hit returned, discarded is the number of entries the levels held when
\* configure_cache was called.
SystemCall(op, arg, set, level, len, exc, hit, found, discarded) ==
    [op |-> op, arg |-> arg, set |-> set, level |-> level, len |-> len, exc |-> exc,
     hit |-> hit, found |-> found, discarded |-> discarded]

\* Blocks 0, 1 and 2.
SystemAddresses == {0, 16, 32}

\* Arguments of configure_cache: the sizes the system is built with, or three
\* lines for every level, and 1 or 2 ways.
ConfigSizes == {LevelSizes(N_WAY), <<3 * LINE_SIZE, 3 * LINE_SIZE, 3 * LINE_SIZE>>}
ConfigWays == {1, N_WAY}

\* The number of entries all sets of all levels hold.
RECURSIVE SumOver(_, _)
SumOver(f, S) ==
    IF S = {} THEN 0
    ELSE LET x == CHOOSE y \in S : TRUE IN f[x] + SumOver(f, S \ {x})

EntriesHeld(levels) ==
    SumOver([k \in DOMAIN levels |->
                SumOver([i \in DOMAIN levels[k].cache_sets |->
                            Len(levels[k].cache_sets[i].entries)],
                        DOMAIN levels[k].cache_sets)],
            DOMAIN levels)

InitSystemOnly ==
    /\ InitSystem(PAGE_SIZE_KiB, LevelSizes(N_WAY), N_WAY)
    /\ driver = "system"

SystemFrame ==
    UNCHANGED <<page_size, pt_entries, tlb, is_palt, storage, sa_cache, sa_usage,
                driver, prev, trace, written>>

\* The caller keeps, per address, one block of BLOCK_SIZE elements and one that
\* is an element too long, and hands one of these objects over in every put
\* made for the address: the names of the two objects.
BlockOf(address, m) == SlotName(IF m > BLOCK_SIZE THEN 1 ELSE 0, 0, address)

\* The heap once the caller has built its block of m elements for address.
WithBlock(h, address, m) == SetItem(h, BlockOf(address, m), CallerBlock(m))

\* cache_system.load_block(address, block), block the caller's dict of m
\* elements for the address.
SysLoadBlock ==
    /\ \E address \in SystemAddresses, m \in BlockLengths :
         \E r \in {CacheSystem_load_block(cache_levels, WithBlock(heap, address, m),
                                          address, BlockOf(address, m))} :
            /\ cache_levels' = r.levels
            /\ heap' = IF r.exc = "none"
                       THEN Collect(r.levels, storage, WithBlock(heap, address, m))
                       ELSE heap
            /\ last' = SystemCall("load_block", address, NoneInt, 0, m, r.exc,
                                  FALSE, NoneInt, 0)
    /\ UNCHANGED <<levels_size, n_way>>
    /\ SystemFrame

\* cache_levels[k].write_block(address, block)
SysWriteBlock ==
    /\ \E k \in Levels, address \in SystemAddresses, m \in BlockLengths :
         \E r \in {Level_write_block(cache_levels[k], WithBlock(heap, address, m),
                                     address, BlockOf(address, m))} :
            /\ cache_levels' = [cache_levels EXCEPT ![k] = r.cache]
            /\ heap' = IF r.exc = "none"
                       THEN Collect(cache_levels', storage, WithBlock(heap, address, m))
                       ELSE heap
            /\ last' = SystemCall("write_block", address, NoneInt, k, m, r.exc,
                                  FALSE, NoneInt, 0)
    /\ UNCHANGED <<levels_size, n_way>>
    /\ SystemFrame

\* cache_levels[0].cache_sets[i].add_or_update(tag, block) for the set and the
\* tag of an address.
SysAddOrUpdate ==
    /\ \E address \in SystemAddresses, m \in BlockLengths :
         \E i \in {get_set_index(cache_levels[1], address)},
            tag \in {get_tag(cache_levels[1], address)} :
         \E r \in {CacheSet_add_or_update(cache_levels[1].cache_sets[i],
                                          WithBlock(heap, address, m), tag,
                                          BlockOf(address, m))} :
            /\ cache_levels' = [cache_levels EXCEPT ![1].cache_sets[i] = r.set]
            /\ heap' = IF r.exc = "none"
                       THEN Collect(cache_levels', storage, WithBlock(heap, address, m))
                       ELSE heap
            /\ last' = SystemCall("add_or_update", tag, i, 1, m, r.exc, FALSE, NoneInt, 0)
    /\ UNCHANGED <<levels_size, n_way>>
    /\ SystemFrame

\* cache_system.check_hit(address): reads the levels only.
SysCheckHit ==
    /\ \E address \in SystemAddresses :
         \E r \in {CacheSystem_check_hit(cache_levels, address)} :
            last' = SystemCall("check_hit", address, NoneInt, 0, 0, "none", r.hit, r.level, 0)
    /\ UNCHANGED <<cache_levels, heap, levels_size, n_way>>
    /\ SystemFrame

\* cache_system.configure_cache(l1_size, l2_size, l3_size, n_way)
SysConfigure ==
    /\ \E sizes \in ConfigSizes, nw \in ConfigWays :
         \E r \in {CacheSystem_configure_cache(cache_levels, LINE_SIZE,
                                               sizes[1], sizes[2], sizes[3], nw)} :
            /\ levels_size' = r.levels_size
            /\ n_way' = r.n_way
            /\ cache_levels' = r.cache_levels
            /\ heap' = Collect(r.cache_levels, storage, heap)
            /\ last' = SystemCall("configure_cache", NoneInt, NoneInt, 0, 0, "none",
                                  FALSE, NoneInt, EntriesHeld(cache_levels))
    /\ SystemFrame

NextSystem == SysLoadBlock \/ SysWriteBlock \/ SysAddOrUpdate \/ SysCheckHit \/ SysConfigure

SpecSystem == InitSystemOnly /\ [][NextSystem]_vars

\* ------------------------------------------------ data in the cache levels

\* What CacheSet.write_data returns: None (no return statement) when the tag
\* is present, False when it is absent.
False == <<"bool", 0>>
CacheSet_write_data_result(set, tag) ==
    IF CacheSet_check_hit(set, tag) THEN NoneVal ELSE False

\* What SetAssociativeCache.write_data returns: it drops what the set's
\* write_data returned and has no return statement.
Level_write_data_result(c, address) == NoneVal

\* Blocks 0, 1 and 2, and the datum written.
DataAddresses == {0, 16, 32}
DataPayloads == {Str(1)}

\* written keeps, per level and set, the resident tags in the order of their
\* last access, the least recently accessed first.
RecencyOf(w, k, i) == IF <<k, i>> \in DOMAIN w THEN w[<<k, i>>] ELSE <<>>

\* The recency order of set i of level k after an access to tag, the set
\* holding the tags resident after it.
Touched(w, levels, k, i, tag) ==
    LET resident == {levels[k].cache_sets[i].entries[j].tag :
                        j \in 1..Len(levels[k].cache_sets[i].entries)}
        Kept(t) == t # tag /\ t \in resident
    IN  SetItem(w, <<k, i>>, Append(SelectSeq(RecencyOf(w, k, i), Kept), tag))

\* The recency orders after an access to address at each level from k on.
RECURSIVE TouchedFrom(_, _, _, _)
TouchedFrom(w, levels, address, k) ==
    IF k > Len(levels) THEN w
    ELSE TouchedFrom(Touched(w, levels, k, get_set_index(levels[k], address),
                             get_tag(levels[k], address)),
                     levels, address, k + 1)

\* What Memory.storage holds for address, at the address's offset when it
\* holds a block.
MemDatum(st, h, address) ==
    IF address \notin DOMAIN st THEN NoneVal
    ELSE IF st[address][1] = "dict"
    THEN LET b == h[st[address][2]]
         IN  IF (address % BLOCK_SIZE) \in DOMAIN b THEN b[address % BLOCK_SIZE] ELSE NoneVal
    ELSE st[address]

\* What level k of levels holds at address, None when the block is not
\* resident there.
DatumIn(levels, h, k, address) ==
    IF Level_check_hit(levels[k], address).hit
    THEN Level_read_data(levels[k], h, address).data ELSE NoneVal

\* The record of a call on the data path; evicted is, per level, the tag the
\* call removed from the address's set, None if none.
DataCall(op, address, level, input, exc, returned, evicted) ==
    [op |-> op, arg |-> address, level |-> level, input |-> input, exc |-> exc,
     returned |-> returned, evicted |-> evicted]

InitData ==
    /\ InitSystem(PAGE_SIZE_KiB, LevelSizes(N_WAY), N_WAY)
    /\ driver = "data"

DataFrame ==
    UNCHANGED <<page_size, pt_entries, tlb, is_palt, levels_size, n_way,
                sa_cache, sa_usage, driver, prev, trace>>

\* cache_system.load_block(address, memory.get_block(address)), as the miss
\* path of process_virtual_address does.
DataLoad ==
    /\ \E address \in DataAddresses :
         \E gb \in {Memory_get_block(storage, heap, cache_levels, address)} :
         \E lb \in {CacheSystem_load_block(cache_levels, gb.heap, address, gb.block)} :
            /\ cache_levels' = lb.levels
            /\ storage' = gb.storage
            /\ heap' = Collect(lb.levels, gb.storage, gb.heap)
            /\ written' = TouchedFrom(written, lb.levels, address, 1)
            /\ last' = DataCall("load_block", address, 0, NoneVal, lb.exc, NoneVal,
                                [k \in Levels |->
                                    LET i == get_set_index(cache_levels[k], address)
                                    IN  EvictedTag(cache_levels[k].cache_sets[i].entries,
                                                   lb.levels[k].cache_sets[i].entries)])
    /\ DataFrame

\* cache_system.read_data(address).  A read that returns found its datum at
\* level 1: at a level that does not hold the tag the read raises KeyError,
\* and the blocks have an element at every offset.
DataRead ==
    /\ \E address \in DataAddresses :
         \E rd \in {CacheSystem_read_data(cache_levels, heap, address)} :
            /\ heap' = rd.heap
            /\ written' = IF rd.exc = "none" /\ rd.data # NoneVal
                          THEN Touched(written, cache_levels, 1,
                                       get_set_index(cache_levels[1], address),
                                       get_tag(cache_levels[1], address))
                          ELSE written
            /\ last' = DataCall("read_data", address, 0, NoneVal, rd.exc, rd.data,
                                [k \in Levels |-> NoneInt])
    /\ UNCHANGED <<cache_levels, storage>>
    /\ DataFrame

\* cache_levels[k - 1].write_data(address, data)
DataLevelWrite ==
    /\ \E k \in Levels, address \in DataAddresses, d \in DataPayloads :
            /\ heap' = Level_write_data(cache_levels[k], heap, address, d)
            /\ written' = IF Resident(k, address)
                          THEN Touched(written, cache_levels, k,
                                       get_set_index(cache_levels[k], address),
                                       get_tag(cache_levels[k], address))
                          ELSE written
            /\ last' = DataCall("write_data", address, k, d, "none",
                                Level_write_data_result(cache_levels[k], address),
                                [j \in Levels |-> NoneInt])
    /\ UNCHANGED <<cache_levels, storage>>
    /\ DataFrame

NextData == DataLoad \/ DataRead \/ DataLevelWrite

SpecData == InitData /\ [][NextData]_vars

\* -------------------------------------------- the address decomposition

\* Addresses are decomposed up to this block number.
MaxBlock == 15

\* Addresses given to the cache levels: two offsets in each block.
CodecAddresses == {BLOCK_SIZE * b + o : b \in 0..MaxBlock, o \in {0, 5}}

\* Addresses given to the standalone cache: the start of each of its blocks.
StandaloneCodecAddresses == {SA_BLOCK_SIZE * b : b \in 0..(4 * MaxBlock)}

\* The record of a decomposition: by which cache (level 0 is the standalone
\* cache), of which address, and the set index, tag and offset computed.
CodecCall(level, address, index, tag, offset) ==
    [op |-> "decompose", level |-> level, arg |-> address, index |-> index,
     tag |-> tag, offset |-> offset]

\* CacheSystem(levels_size, 3, 64, n_way) for 1 or N_WAY ways.
InitCodec ==
    /\ \E nw \in ConfigWays : InitSystem(PAGE_SIZE_KiB, LevelSizes(N_WAY), nw)
    /\ driver = "codec"

CodecFrame ==
    UNCHANGED <<page_size, pt_entries, tlb, is_palt, levels_size, n_way, cache_levels,
                heap, storage, sa_cache, sa_usage, driver, trace, written>>

\* _get_set_index, get_tag and get_offset of a level applied to an address.
\* prev keeps the decomposition made before when it was by the same cache.
CodecLevel ==
    /\ \E k \in Levels, address \in CodecAddresses :
            /\ last' = CodecCall(k, address, get_set_index(cache_levels[k], address),
                                 get_tag(cache_levels[k], address),
                                 get_offset(cache_levels[k], address))
            /\ prev' = IF last.op = "decompose" /\ last.level = k THEN last ELSE NoCall
    /\ CodecFrame

\* The set index and the tag access_cache of the standalone cache computes.
CodecStandalone ==
    /\ \E address \in StandaloneCodecAddresses :
            /\ last' = CodecCall(0, address, Standalone_get_set_index(address),
                                 Standalone_tag(address), address % SA_BLOCK_SIZE)
            /\ prev' = IF last.op = "decompose" /\ last.level = 0 THEN last ELSE NoCall
    /\ CodecFrame

NextCodec == CodecLevel \/ CodecStandalone

SpecCodec == InitCodec /\ [][NextCodec]_vars

\* The block size and the set count of the cache a decomposition was made by.
BlockSizeOf(call) ==
    IF call.level = 0 THEN SA_BLOCK_SIZE ELSE cache_levels[call.level].block_size
NumSetsOf(call) ==
    IF call.level = 0 THEN Standalone_num_sets ELSE cache_levels[call.level].num_sets

\* ------------------------------------------- the pages the MMU alone maps

\* Virtual addresses the CPU issues here: two of page 0x5 (not in the demo
\* table) and one of page 0x1112 (mapped by it).
PageAddresses == {VA(5, 17), VA(5, 33), VA(4370, 0)}

InitPage ==
    /\ InitSystem(PAGE_SIZE_KiB, LevelSizes(MMU_WAYS), MMU_WAYS)
    /\ driver = "page"

\* mmu.translate_address(va), the page table touched by the MMU only.
PageTranslate ==
    /\ \E va \in PageAddresses : \E frame \in Draws(va) :
         \E r \in {translate_address(tlb, pt_entries, page_size, va, frame)} :
            /\ tlb' = r.tlb
            /\ pt_entries' = r.entries
            /\ is_palt' = r.is_palt
            /\ last' = TranslationCall("translate", va, r.exc, r.is_palt,
                                       r.physical_address, r.tlb_hit,
                                       r.entries # pt_entries)
    /\ UNCHANGED prev
    /\ TranslateFrame

\* mmu.process_virtual_address(va, input), a read or a write.
PageProcess ==
    \E va \in PageAddresses, input \in {NoneVal} \cup Payloads :
        \E frame \in Draws(va) : Process(va, input, frame)

NextPage == PageTranslate \/ PageProcess

SpecPage == InitPage /\ [][NextPage]_vars

\* ------------------------------------------------------------------ claims

\* C1: every read of va made through process_virtual_address that returns,
\* returns as data the payload of the most recent earlier write to va,
\* whatever was read or written at other addresses in between.
C1_ReadReturnsLastWrite ==
    (LastIsRead /\ last.exc = "none" /\ last.arg \in DOMAIN written)
        => last.result.data = written[last.arg]

\* C2: after a write made through process_virtual_address completes, every
\* cache level holds a resident block for the physical address and the
\* element at the address's offset in that block is the written payload.
C2_WriteReachesEveryLevel ==
    (LastIsWrite /\ last.exc = "none")
        => \A k \in Levels : /\ Resident(k, last.result.physical_address)
                             /\ DatumAt(k, last.result.physical_address) = last.input

\* C3: immediately after process_virtual_address with write payload d returns,
\* on the hit path and on the miss path, Memory.read of the returned physical
\* address yields d.
C3_WriteReachesMemory ==
    LastIsWrite
        => /\ last.exc = "none"
           /\ last.result.physical_address # NoneInt
           /\ Memory_read(storage, last.result.physical_address) = last.input

\* C3 witness: a write that hit at a level farther than L1 has returned and
\* the memory holds its payload.
C3_Witness ==
    /\ LastIsWrite
    /\ last.probe > 1
    /\ ~Resident(1, last.result.physical_address)
    /\ Memory_read(storage, last.result.physical_address) = last.input

\* C4: a read of an address resident at level k and at no nearer level returns
\* its datum, and afterwards the block is resident at every level nearer than k.
C4_PromotionOnHit ==
    (LastIsRead /\ last.probe > 1)
        => /\ last.exc = "none"
           /\ last.result.data # NoneVal
           /\ \A j \in 1..(last.probe - 1) : Resident(j, last.result.physical_address)

\* C5: every process_virtual_address call runs to completion and returns an
\* access result; a miss at some or all cache levels never leaves the call as
\* an exception.
C5_ProcessAlwaysReturns ==
    last.op = "process" => last.exc = "none"

\* C6: a read through process_virtual_address of a physical address resident
\* at no cache level returns data that is not None, and afterwards the address
\* is resident at every level.
C6_ReadMissLoadsAndHits ==
    (LastIsRead /\ last.probe = 0)
        => /\ last.exc = "none"
           /\ last.result.data # NoneVal
           /\ \A k \in Levels : Resident(k, last.result.physical_address)

\* C6 witness: such a read has happened after the block had been evicted from
\* every level: the memory slot of the address, which the earlier write had
\* set to its payload, holds a newly fetched block.
C6_Witness ==
    /\ LastIsRead
    /\ last.probe = 0
    /\ last.arg \in DOMAIN written
    /\ last.result.data # NoneVal
    /\ \A k \in Levels : Resident(k, last.result.physical_address)

\* C7: after every put (CacheSet.add_or_update, SetAssociativeCache.write_block,
\* access_cache of the standalone cache) the number of entries of each cache
\* set is at most its associativity.
C7_SetCapacity ==
    /\ \A k \in Levels : \A i \in DOMAIN cache_levels[k].cache_sets :
          Len(cache_levels[k].cache_sets[i].entries) <= cache_levels[k].cache_sets[i].n_way
    /\ \A i \in DOMAIN sa_cache : Cardinality(sa_cache[i]) <= SA_N

\* C7 witness: a put has just evicted a tag from a set of the hierarchy, which
\* holds exactly n_way entries.
C7_Witness ==
    /\ last.op \in {"add_or_update", "write_block"}
    /\ last.exc = "none"
    /\ last.evicted # NoneInt
    /\ \E i \in DOMAIN cache_levels[last.probe].cache_sets :
          Len(cache_levels[last.probe].cache_sets[i].entries) = N_WAY

\* The run so far starts with three distinct blocks A, B, C of one set, put
\* (or accessed) in that order into the initially empty 2-way set.
StartsWithABC ==
    /\ Len(trace) >= 3
    /\ trace[1].set = trace[2].set /\ trace[2].set = trace[3].set
    /\ Cardinality({trace[1].tag, trace[2].tag, trace[3].tag}) = 3

\* C8 as claimed: in the sequence [A, B, C, A] the insertion of C evicts B and
\* not A.
C8_EvictsB ==
    StartsWithABC => trace[3].evicted = trace[2].tag

\* C8 as amended: in the sequence [A, B, C, A] the insertion of C evicts A,
\* the least recently used, and not B; the final access to A misses.
C8_EvictsA ==
    StartsWithABC =>
        /\ trace[3].evicted = trace[1].tag
        /\ ~trace[3].hit
        /\ (Len(trace) >= 4 /\ trace[4].arg = trace[1].arg) => ~trace[4].hit

\* C8 witness: the sequence [A, B, C, A] has been run on the standalone cache.
C8_Witness ==
    /\ StartsWithABC
    /\ Len(trace) = 4
    /\ trace[4].arg = trace[1].arg
    /\ trace[4].op = "access"
    /\ trace[3].evicted = trace[1].tag

\* C9: translate_address(va) immediately followed by translate_address(va)
\* returns the same physical address; the second call is served by the TLB,
\* reports no page fault and adds no page-table entry.
C9_RoundTrip ==
    (last.op = "translate" /\ prev.op = "translate" /\ prev.arg = last.arg
     /\ prev.exc = "none")
        => /\ last.exc = "none"
           /\ last.result.physical_address = prev.result.physical_address
           /\ last.tlb_hit
           /\ ~last.result.page_fault
           /\ ~is_palt
           /\ ~last.added

\* C9 witness: the first of the two calls page-faulted, the second one has
\* returned.
C9_Witness ==
    /\ last.op = "translate" /\ prev.op = "translate" /\ prev.arg = last.arg
    /\ prev.result.page_fault
    /\ last.tlb_hit
    /\ last.result.physical_address = prev.result.physical_address

IsPowerOfTwo(n) == \E k \in 0..20 : n = 2 ^ k
Log2(n) == CHOOSE k \in 0..20 : n = 2 ^ k

\* C10: for a page size of 2^k bytes, when va is absent from the TLB and the
\* page table maps vpn = va >> k to ppn, translate_address(va) returns
\* (ppn << k) | (va mod 2^k); with 4096-byte pages and VPN 0x1112 mapped to PPN
\* 0x1102, virtual address 0x1112000 translates to 0x1102000.
C10_PageTableWalk ==
    (last.op = "translate" /\ ~last.tlb_hit /\ ~last.result.page_fault
     /\ IsPowerOfTwo(page_size))
        => LET k == Log2(page_size)
               vpn == last.arg \div (2 ^ k)
           IN  /\ last.exc = "none"
               /\ vpn \in DOMAIN pt_entries
               /\ last.result.physical_address
                      = pt_entries[vpn] * (2 ^ k) + (last.arg % (2 ^ k))
               /\ (page_size = 4096 /\ last.arg = 17899520 /\ pt_entries[vpn] = 4354)
                      => last.result.physical_address = 17833984

\* C10 witness: 0x1112000 has been translated to 0x1102000 by a page-table
\* walk with 4096-byte pages.
C10_Witness ==
    /\ last.op = "translate" /\ ~last.tlb_hit /\ ~last.result.page_fault
    /\ page_size = 4096
    /\ last.arg = 17899520
    /\ pt_entries[4370] = 4354
    /\ last.result.physical_address = 17833984

\* C11: a translate_address call (the first step of process_virtual_address)
\* for a virtual address absent from the TLB whose virtual page number is
\* absent from the page table installs exactly one new mapping vpn -> ppn,
\* leaves every other page-table entry as it was, reports a page fault, and
\* returns (ppn << offset_bits) | page_offset for that same ppn.
C11_PageFaultInstalls ==
    [][(/\ last'.op = "translate"
        /\ last'.arg \notin DOMAIN tlb
        /\ VpnOf(last'.arg) \notin DOMAIN pt_entries)
       => /\ last'.exc = "none"
          /\ DOMAIN pt_entries' = (DOMAIN pt_entries) \cup {VpnOf(last'.arg)}
          /\ \A v \in DOMAIN pt_entries : pt_entries'[v] = pt_entries[v]
          /\ last'.result.page_fault
          /\ is_palt'
          /\ last'.result.physical_address
                = pt_entries'[VpnOf(last'.arg)] * page_size + (last'.arg % page_size)]_vars

\* C11 witness: a translation has page-faulted at a non-zero page offset, the
\* page table holds the new mapping and the address returned is built on it.
C11_Witness ==
    /\ last.op = "translate"
    /\ last.result.page_fault
    /\ last.added
    /\ last.arg % page_size # 0
    /\ VpnOf(last.arg) \in DOMAIN pt_entries
    /\ last.result.physical_address
          = pt_entries[VpnOf(last.arg)] * page_size + (last.arg % page_size)

\* C12: the page table the system starts with is injective, and the physical
\* page number page-fault service allocates is fresh, so after any sequence
\* of page faults distinct virtual pages map to distinct physical pages.
C12_FreshFrames ==
    \A v \in DOMAIN pt_entries : \A w \in DOMAIN pt_entries :
        v # w => pt_entries[v] # pt_entries[w]

\* C13: every TLB entry va -> pa is re-derivable from the current page table:
\* the table maps vpn(va) to some ppn and pa = (ppn << offset_bits) | offset(va).
C13_TlbDerivable ==
    \A va \in DOMAIN tlb :
        /\ VpnOf(va) \in DOMAIN pt_entries
        /\ tlb[va] = pt_entries[VpnOf(va)] * page_size + (va % page_size)

\* C14: get_physical_page_number(vpn) returns exactly the ppn of the last
\* add_entry(vpn, ppn) made for that vpn (written), both when called and as
\* the table stands; a vpn has one ppn only.
C14_GetReturnsLastAdd ==
    /\ \A vpn \in DOMAIN written :
          /\ vpn \in DOMAIN pt_entries
          /\ pt_entries[vpn] = written[vpn]
          /\ get_physical_page_number(pt_entries, vpn) = written[vpn]
    /\ (last.op = "get_physical_page_number" /\ last.vpn \in DOMAIN written)
          => last.returned = written[last.vpn]
    /\ (last.op = "add_entry")
          => get_physical_page_number(pt_entries, last.vpn) = last.ppn

\* C14 witness: an add_entry for a virtual page has superseded an earlier
\* add_entry of another ppn for the same page, and the table holds the later.
C14_Witness ==
    /\ last.op = "add_entry"
    /\ prev.op = "add_entry"
    /\ prev.vpn = last.vpn
    /\ prev.ppn # last.ppn
    /\ get_physical_page_number(pt_entries, last.vpn) = last.ppn
    /\ Cardinality(DOMAIN pt_entries) > 1

\* C15: update_entry on a virtual page that is absent always fails with
\* KeyError and leaves the page table as it was: no entry is created.
C15_UpdateAbsentFails ==
    [][(last'.op = "update_entry" /\ last'.vpn \notin DOMAIN pt_entries)
       => /\ last'.exc = "KeyError"
          /\ pt_entries' = pt_entries]_vars

\* C15 witness: update_entry of an absent virtual page has failed on a table
\* that holds other entries.
C15_Witness ==
    /\ last.op = "update_entry"
    /\ last.exc = "KeyError"
    /\ last.vpn \notin DOMAIN pt_entries
    /\ pt_entries # EmptyMap

C17_ConfigureFlushes ==
    last.op = "configure_cache" =>
        /\ EntriesHeld(cache_levels) = 0
        /\ \A address \in SystemAddresses \cup {48, 64, 1024} :
              LET r == CacheSystem_check_hit(cache_levels, address)
              IN  ~r.hit /\ r.level = NoneInt
        /\ \A k \in Levels :
              /\ cache_levels[k].n_way = n_way
              /\ cache_levels[k].num_sets = levels_size[k] \div (LINE_SIZE * n_way)

\* C17 witness: configure_cache has discarded entries of a populated system.
C17_Witness ==
    /\ last.op = "configure_cache"
    /\ last.discarded > 2
    /\ EntriesHeld(cache_levels) = 0

\* C18: check_hit(address) returns the identifier of the nearest level at
\* which the address's block is resident, returns none exactly when the block
\* is resident at no level, and changes nothing in the caches.
C18_CheckHitNearest ==
    [][last'.op = "check_hit"
       => LET at == {k \in Levels : Resident(k, last'.arg)}
          IN  /\ cache_levels' = cache_levels
              /\ heap' = heap
              /\ (at = {}) => (~last'.hit /\ last'.found = NoneInt)
              /\ (at # {}) => /\ last'.hit
                              /\ last'.found \in at
                              /\ \A k \in at : last'.found <= k]_vars

\* C18 witness: check_hit has found at a farther level a block that is not
\* resident at level 1 and is resident at two levels.
C18_Witness ==
    /\ last.op = "check_hit"
    /\ last.hit
    /\ last.found = 2
    /\ ~Resident(1, last.arg)
    /\ Resident(2, last.arg)
    /\ Resident(3, last.arg)

\* C19: a put (add_or_update, write_block, load_block) of a block with more
\* elements than the block capacity fails with ValueError and leaves the
\* entries and the recency order of every set of every level as they were.
C19_OversizedPutRejected ==
    [][(/\ last'.op \in {"add_or_update", "write_block", "load_block"}
        /\ last'.len > BLOCK_SIZE)
       => /\ last'.exc = "ValueError"
          /\ cache_levels' = cache_levels
          /\ heap' = heap]_vars

\* C19 witness: load_block of an oversized block has failed on a system that
\* holds blocks.
C19_Witness ==
    /\ last.op = "load_block"
    /\ last.len > BLOCK_SIZE
    /\ last.exc = "ValueError"
    /\ EntriesHeld(cache_levels) > 2

\* C20: no cache level is ever built, at construction or by configure_cache,
\* with a block size or a set count that is not an exact power of two.
C20_PowerOfTwoGeometry ==
    \A k \in Levels :
        /\ IsPowerOfTwo(cache_levels[k].block_size)
        /\ IsPowerOfTwo(cache_levels[k].num_sets)

\* C21: a write of one datum at a cache level for an address whose tag is not
\* resident in its set fails with a reported error (an exception, or False
\* returned) and leaves that level as it was; it never silently does nothing.
C21_WriteAbsentTagFails ==
    [][(last'.op = "write_data" /\ ~Resident(last'.level, last'.arg))
       => /\ (last'.exc # "none" \/ last'.returned = False)
          /\ cache_levels' = cache_levels
          /\ heap' = heap]_vars

\* C23: CacheSystem.read_data(address) for an address resident at no cache
\* level returns None and leaves the contents and the recency order of every
\* level as they were.
C23_ReadMissReturnsNone ==
    [][(last'.op = "read_data" /\ \A k \in Levels : ~Resident(k, last'.arg))
       => /\ last'.exc = "none"
          /\ last'.returned = NoneVal
          /\ cache_levels' = cache_levels
          /\ heap' = heap]_vars

\* C24: every access to a resident block (read hit, write hit, load) makes it
\* the most recently used of its set, so the tag load_block evicts from a full
\* set is the resident tag whose last access is the oldest.
C24_EvictsLeastRecentlyAccessed ==
    [][last'.op = "load_block"
       => \A k \in Levels :
             last'.evicted[k] # NoneInt
                => LET r == RecencyOf(written, k, get_set_index(cache_levels[k], last'.arg))
                   IN  r # <<>> /\ last'.evicted[k] = Head(r)]_vars

\* C27: once load_block has installed a block for an address in every level,
\* a write_data applied to one level alone changes the datum seen at that
\* address only in that level: what the other levels and the memory hold for
\* the address is unchanged.
C27_LevelWriteIsLocal ==
    [][(last'.op = "write_data" /\ \A k \in Levels : Resident(k, last'.arg))
       => /\ \A j \in Levels \ {last'.level} :
                DatumIn(cache_levels', heap', j, last'.arg)
                    = DatumIn(cache_levels, heap, j, last'.arg)
          /\ MemDatum(storage', heap', last'.arg) = MemDatum(storage, heap, last'.arg)]_vars

\* C25: for a cache with block size B and set count S, both powers of two, the
\* tag computed for every address A is A >> (log2(B) + log2(S)), whatever the
\* value of A's set index.
C25_TagShift ==
    (last.op = "decompose" /\ IsPowerOfTwo(BlockSizeOf(last)) /\ IsPowerOfTwo(NumSetsOf(last)))
        => last.tag = last.arg \div (BlockSizeOf(last) * NumSetsOf(last))

\* C26: for a cache level with power-of-two block size and set count, two
\* addresses with the same set index and the same tag lie in the same block,
\* and the set index is within [0, num_sets).
C26_NoAliasing ==
    (last.op = "decompose" /\ last.level # 0
     /\ IsPowerOfTwo(BlockSizeOf(last)) /\ IsPowerOfTwo(NumSetsOf(last)))
        => /\ last.index >= 0
           /\ last.index < NumSetsOf(last)
           /\ last.offset = last.arg % BlockSizeOf(last)
           /\ (prev.op = "decompose" /\ prev.level = last.level
               /\ prev.index = last.index /\ prev.tag = last.tag)
                 => (prev.arg \div BlockSizeOf(last)) = (last.arg \div BlockSizeOf(last))

\* C26 witness: two different addresses of one block have been decomposed by a
\* level of several sets into the same non-zero set index and the same tag.
C26_Witness ==
    /\ last.op = "decompose" /\ prev.op = "decompose"
    /\ last.level # 0 /\ prev.level = last.level
    /\ NumSetsOf(last) > 2
    /\ prev.arg # last.arg
    /\ prev.index = last.index /\ prev.tag = last.tag
    /\ last.index > 1
    /\ last.tag > 0
    /\ (prev.arg \div BlockSizeOf(last)) = (last.arg \div BlockSizeOf(last))

\* C28: once va -> pa is in the TLB, no call removes the entry or changes its
\* value, and every later translate_address(va) returns that pa, whatever
\* PageTable add/update/remove/clear calls came in between.
C28_TlbEntriesStable ==
    [][/\ \A va \in DOMAIN tlb : va \in DOMAIN tlb' /\ tlb'[va] = tlb[va]
       /\ (last'.op = "translate" /\ last'.arg \in DOMAIN tlb)
            => /\ last'.exc = "none"
               /\ last'.result.physical_address = tlb[last'.arg]]_vars

\* C28 witness: a translation was served from the TLB although the page table
\* no longer maps the address's page, while another address is cached too.
C28_Witness ==
    /\ last.op = "translate" /\ last.tlb_hit
    /\ VpnOf(last.arg) \notin DOMAIN pt_entries
    /\ last.result.physical_address = tlb[last.arg]
    /\ \E va \in DOMAIN tlb : va # last.arg

\* C29: process_virtual_address reports page_fault exactly when, at call
\* entry, the virtual address is not in the TLB and its virtual page is not in
\* the page table; a call whose address is in the TLB leaves the page table
\* as it was, and the page table changes only on a page fault.
C29_PageFaultIff ==
    [][last'.op = "process"
        => LET faults == /\ last'.arg \notin DOMAIN tlb
                         /\ VpnOf(last'.arg) \notin DOMAIN pt_entries
           IN  /\ last'.exc = "none" => (last'.result.page_fault <=> faults)
               /\ is_palt' <=> faults
               /\ last'.tlb_hit <=> last'.arg \in DOMAIN tlb
               /\ last'.arg \in DOMAIN tlb => pt_entries' = pt_entries
               /\ pt_entries' # pt_entries => faults]_vars

\* C29 witness: a call that returned reported a page fault and put the page
\* into the page table, after an earlier translation had filled the TLB.
C29_Witness ==
    /\ last.op = "process" /\ last.exc = "none"
    /\ last.result.page_fault
    /\ last.added
    /\ ~last.tlb_hit
    /\ \E va \in DOMAIN tlb : va # last.arg

\* C30: the cache_hit field of a returned access result is the nearest level
\* at which the physical address was resident when the call began, and False
\* (0) exactly when it was resident at no level, a read miss that loads the
\* block and returns data included.
C30_CacheHitIsNearestLevel ==
    [][(last'.op = "process" /\ last'.exc = "none")
        => LET pa == last'.result.physical_address
               at == {k \in Levels : Resident(k, pa)}
           IN  /\ at = {} <=> last'.result.cache_hit = 0
               /\ at # {} => /\ last'.result.cache_hit \in at
                             /\ \A k \in at : last'.result.cache_hit <= k]_vars

\* C30 witness: a returned call found its address at level 2, not at level 1,
\* and the block is resident further out as well.
C30_Witness ==
    /\ last.op = "process" /\ last.exc = "none"
    /\ last.result.cache_hit = 2
    /\ Resident(3, last.result.physical_address)

\* The block an address of the standalone cache lies in, and the set a block
\* maps to when block size and set count are powers of two.
StandaloneBlock(address) == address \div SA_BLOCK_SIZE
StandaloneSetOf(block) == block % Standalone_num_sets

\* The blocks of set i among the first j accesses of tr, taken from the latest
\* access backwards until n distinct ones are found.
RECURSIVE RecentBlocks(_, _, _, _, _)
RecentBlocks(tr, j, i, n, acc) ==
    IF j = 0 \/ Cardinality(acc) = n THEN acc
    ELSE LET b == StandaloneBlock(tr[j].arg)
         IN  RecentBlocks(tr, j - 1, i, n,
                          IF StandaloneSetOf(b) = i THEN acc \cup {b} ELSE acc)

\* C31: every access_cache(addr) of the standalone cache (block size and set
\* count powers of two) returned a hit exactly when addr's block was among
\* the n most recently accessed distinct blocks of its set, and after the
\* latest call its block is resident and the most recently used of its set.
C31_TrueLru ==
    (driver = "standalone" /\ IsPowerOfTwo(SA_BLOCK_SIZE) /\ IsPowerOfTwo(Standalone_num_sets))
        => /\ \A j \in 1..Len(trace) :
                LET b == StandaloneBlock(trace[j].arg)
                IN  trace[j].hit <=> b \in RecentBlocks(trace, j - 1, StandaloneSetOf(b), SA_N, {})
           /\ Len(trace) > 0 =>
                LET address == trace[Len(trace)].arg
                    i == StandaloneSetOf(StandaloneBlock(address))
                    tag == Standalone_tag(address)
                IN  /\ tag \in sa_cache[i]
                    /\ tag \in DOMAIN sa_usage[i]
                    /\ \A u \in (DOMAIN sa_usage[i]) \ {tag} : sa_usage[i][u] < sa_usage[i][tag]

\* C31 witness: after a replacement in a full set, an access to the block that
\* was kept hit, and an earlier access to a block had missed.
C31_Witness ==
    /\ driver = "standalone"
    /\ Len(trace) = 4
    /\ trace[3].evicted # NoneInt
    /\ trace[4].hit
    /\ trace[4].arg # trace[3].arg
    /\ ~trace[1].hit

\* The physical addresses the CPU's virtual addresses can translate to.
PhysicalAddresses ==
    {ppn * page_size + (va % page_size) :
        va \in CpuAddresses,
        ppn \in FramePool \cup {pt_entries[v] : v \in DOMAIN pt_entries}}

\* Level capacities do not decrease from L1 to L3, and set counts and block
\* sizes are powers of two with one line size and associativity.
NestedGeometry ==
    /\ \A k \in Levels :
          /\ IsPowerOfTwo(cache_levels[k].num_sets)
          /\ IsPowerOfTwo(cache_levels[k].block_size)
          /\ cache_levels[k].n_way = cache_levels[1].n_way
          /\ cache_levels[k].line_size = cache_levels[1].line_size
    /\ \A k \in Levels, j \in Levels : k < j => levels_size[k] <= levels_size[j]

\* C32: with capacities non-decreasing from L1 to L3 and the caches changed
\* only through process_virtual_address, a block resident at a nearer level
\* is resident at every farther level.
C32_Inclusive ==
    NestedGeometry
        => \A address \in PhysicalAddresses : \A k \in Levels, j \in Levels :
              (k < j /\ Resident(k, address)) => Resident(j, address)

\* C32 witness: level 1 has replaced a block that levels 2 and 3 still hold,
\* and the block it holds now is at levels 2 and 3 as well.
C32_Witness ==
    /\ NestedGeometry
    /\ \E a \in PhysicalAddresses, b \in PhysicalAddresses :
          /\ Resident(1, a) /\ Resident(2, a) /\ Resident(3, a)
          /\ ~Resident(1, b) /\ Resident(2, b) /\ Resident(3, b)
    /\ \E c \in PhysicalAddresses : ~Resident(2, c) /\ Resident(3, c)

\* C33: while only translate_address and process_virtual_address touch the
\* page table, the translation of an address keeps the address's page
\* offset and has the page number every earlier translation of an address of
\* the same virtual page has, and a call on a page accessed before reports no
\* page fault.
C33_PageConsistent ==
    [][last'.op \in {"translate", "process"}
        => LET va == last'.arg
               pa == tlb'[va]
           IN  /\ va \in DOMAIN tlb'
               /\ last'.exc = "none" => last'.result.physical_address = pa
               /\ pa % page_size = va % page_size
               /\ \A u \in DOMAIN tlb : VpnOf(u) = VpnOf(va)
                     => /\ tlb[u] \div page_size = pa \div page_size
                        /\ ~is_palt'
                        /\ ~last'.result.page_fault
               /\ \A u \in DOMAIN tlb' : VpnOf(u) = VpnOf(va)
                     => tlb'[u] \div page_size = pa \div page_size]_vars

\* C33 witness: a second address of a page the page-fault service had mapped
\* was translated through the page table, without a page fault, to the frame
\* of the first, each address with its own offset.
C33_Witness ==
    /\ last.op \in {"translate", "process"}
    /\ last.exc = "none"
    /\ VpnOf(last.arg) \notin DOMAIN DemoPageTable
    /\ ~last.tlb_hit
    /\ ~last.result.page_fault
    /\ \E u \in DOMAIN tlb :
          /\ u # last.arg
          /\ VpnOf(u) = VpnOf(last.arg)
          /\ tlb[u] \div page_size = tlb[last.arg] \div page_size
          /\ tlb[u] % page_size # tlb[last.arg] % page_size

\* The entries of a set other than the one of tag, in their order.
OthersOf(entries, tag) ==
    LET Other(e) == e.tag # tag
    IN  SelectSeq(entries, Other)

\* C34: add_or_update of a block the set accepts, for a tag already in the
\* set, stores that block under the tag and makes the tag the most recently
\* used (the last of the OrderedDict), evicts nothing and leaves the number of
\* entries and the order of the other entries as they were, also in a full
\* set.  The puts are those load_block makes at every level.
C34_PutPresentTag ==
    [][(last'.op = "load_block" /\ last'.exc = "none")
        => \A k \in Levels :
             LET i == get_set_index(cache_levels[k], last'.arg)
                 tag == get_tag(cache_levels[k], last'.arg)
                 before == cache_levels[k].cache_sets[i].entries
                 after == cache_levels'[k].cache_sets[i].entries
             IN  (\E j \in 1..Len(before) : before[j].tag = tag)
                   => /\ Len(after) = Len(before)
                      /\ after[Len(after)].tag = tag
                      /\ storage'[last'.arg] = DictRef(after[Len(after)].blk)
                      /\ OthersOf(after, tag) = OthersOf(before, tag)
                      /\ Len(OthersOf(after, tag)) = Len(after) - 1
                      /\ last'.evicted[k] = NoneInt]_vars

\* C34 witness: load_block has put a block for a tag that every level held,
\* level 1's set being full: nothing was evicted, the set still holds n_way
\* entries and the tag is the last of them.  The block is not the first one
\* made for the address (whose name is the address), so the address had been
\* loaded before, and level 1, which evicted nothing, still held its tag.
C34_Witness ==
    /\ last.op = "load_block" /\ last.exc = "none"
    /\ \A k \in Levels : last.evicted[k] = NoneInt
    /\ LET set == cache_levels[1].cache_sets[get_set_index(cache_levels[1], last.arg)]
       IN  /\ set.n_way > 1
           /\ Len(set.entries) = set.n_way
           /\ set.entries[Len(set.entries)].tag = get_tag(cache_levels[1], last.arg)
           /\ storage[last.arg] = DictRef(set.entries[Len(set.entries)].blk)
           /\ set.entries[Len(set.entries)].blk # last.arg

====
